---------------------------- MODULE Spec2Model ----------------------------
(***************************************************************************)
(* A model of the RESP codec of iorust/resp: the Value tree, the encoder   *)
(* (serialize.rs: encode, encode_slice, buf_encode) and the streaming      *)
(* Decoder (feed, read, parse, parse_one_value).                           *)
(*                                                                         *)
(* Bytes are the integers 0..255.  A byte string (Vec<u8>, &[u8]) and a    *)
(* String (its UTF-8 bytes) are sequences of bytes.  Rust indexes from 0,  *)
(* TLA+ sequences from 1: At and Slice translate.                          *)
(***************************************************************************)
EXTENDS Integers, Sequences, FiniteSets, TLC

(***************************************************************************)
(* Bytes the code names.                                                   *)
(***************************************************************************)
CR == 13
LF == 10
PLUS == 43
MINUS == 45
COLON == 58
DOLLAR == 36
STAR == 42
ZERO == 48

RESP_MAX_SIZE == 512 * 1024 * 1024
CLRF_BYTES == <<CR, LF>>
NULL_BYTES == <<DOLLAR, MINUS, ZERO + 1, CR, LF>>
NULL_ARRAY_BYTES == <<STAR, MINUS, ZERO + 1, CR, LF>>

\* buffer[i] of the code
At(buffer, i) == buffer[i + 1]
\* buffer[a..b] of the code
Slice(buffer, a, b) == SubSeq(buffer, a + 1, b)

(***************************************************************************)
(* i64.  TLC's integers are 32 bits wide, so an i64 is kept as its sign    *)
(* and its decimal magnitude: [neg, mag], mag a sequence of digits 0..9    *)
(* without leading zero (zero is <<0>>, never negative).                   *)
(***************************************************************************)
I64_MAX_MAG == <<9, 2, 2, 3, 3, 7, 2, 0, 3, 6, 8, 5, 4, 7, 7, 5, 8, 0, 7>>
I64_MIN_MAG == <<9, 2, 2, 3, 3, 7, 2, 0, 3, 6, 8, 5, 4, 7, 7, 5, 8, 0, 8>>

RECURSIVE NatDigits(_)
NatDigits(n) == IF n < 10 THEN <<n>> ELSE NatDigits(n \div 10) \o <<n % 10>>

RECURSIVE DigitsNat(_)
DigitsNat(mag) ==
    IF mag = <<>> THEN 0
    ELSE 10 * DigitsNat(SubSeq(mag, 1, Len(mag) - 1)) + mag[Len(mag)]

\* the i64 of a small integer of the model
I64(n) == IF n < 0 THEN [neg |-> TRUE, mag |-> NatDigits(-n)]
                   ELSE [neg |-> FALSE, mag |-> NatDigits(n)]

RECURSIVE StripZeros(_)
StripZeros(ds) ==
    IF Len(ds) > 1 /\ ds[1] = 0 THEN StripZeros(Tail(ds)) ELSE ds

\* a <= b for magnitudes without leading zeros
RECURSIVE MagLeq(_, _)
MagLeq(a, b) ==
    IF Len(a) # Len(b) THEN Len(a) < Len(b)
    ELSE IF a = <<>> THEN TRUE
    ELSE IF a[1] # b[1] THEN a[1] < b[1]
    ELSE MagLeq(Tail(a), Tail(b))

\* i64::to_string and usize::to_string, as bytes
DigitBytes(mag) == [i \in 1..Len(mag) |-> mag[i] + ZERO]
\* mutant: the sign is dropped
I64ToString_NoSign(int) == DigitBytes(int.mag)
I64ToString(int) == (IF int.neg THEN <<MINUS>> ELSE <<>>) \o DigitBytes(int.mag)
UsizeToString(n) == DigitBytes(NatDigits(n))

\* the comparisons the code makes on a parsed i64
I64IsMinusOne(int) == int.neg /\ int.mag = <<1>>
I64LtMinusOne(int) == int.neg /\ int.mag # <<1>>
\* mutant: the bound itself is accepted
I64GeMaxSize_Gt(int) ==
    /\ ~int.neg
    /\ \/ Len(int.mag) > 9
       \/ DigitsNat(int.mag) > RESP_MAX_SIZE
I64GeMaxSize(int) ==
    /\ ~int.neg
    /\ \/ Len(int.mag) > 9
       \/ DigitsNat(int.mag) >= RESP_MAX_SIZE
\* int as usize, for 0 <= int < RESP_MAX_SIZE
I64AsUsize(int) == DigitsNat(int.mag)

(***************************************************************************)
(* Value (value.rs).  Every variant is a record [t, p]: the tag and the    *)
(* payload.                                                                *)
(***************************************************************************)
Null == [t |-> "Null", p |-> <<>>]
NullArray == [t |-> "NullArray", p |-> <<>>]
String(s) == [t |-> "String", p |-> s]
Error(s) == [t |-> "Error", p |-> s]
Integer(int) == [t |-> "Integer", p |-> int]
Bulk(s) == [t |-> "Bulk", p |-> s]
BufBulk(b) == [t |-> "BufBulk", p |-> b]
Array(items) == [t |-> "Array", p |-> items]

(***************************************************************************)
(* str::from_utf8: TRUE iff bytes[i..] (1-based) is well-formed UTF-8.     *)
(***************************************************************************)
IsCont(bytes, i) == i <= Len(bytes) /\ bytes[i] >= 128 /\ bytes[i] <= 191
InRange(bytes, i, lo, hi) == i <= Len(bytes) /\ bytes[i] >= lo /\ bytes[i] <= hi

RECURSIVE Utf8From(_, _)
Utf8From(bytes, i) ==
    IF i > Len(bytes) THEN TRUE
    ELSE LET c == bytes[i] IN
         IF c < 128 THEN Utf8From(bytes, i + 1)
         ELSE IF c >= 194 /\ c <= 223
              THEN IsCont(bytes, i + 1) /\ Utf8From(bytes, i + 2)
         ELSE IF c = 224
              THEN InRange(bytes, i + 1, 160, 191) /\ IsCont(bytes, i + 2)
                   /\ Utf8From(bytes, i + 3)
         ELSE IF (c >= 225 /\ c <= 236) \/ c = 238 \/ c = 239
              THEN IsCont(bytes, i + 1) /\ IsCont(bytes, i + 2)
                   /\ Utf8From(bytes, i + 3)
         ELSE IF c = 237
              THEN InRange(bytes, i + 1, 128, 159) /\ IsCont(bytes, i + 2)
                   /\ Utf8From(bytes, i + 3)
         ELSE IF c = 240
              THEN InRange(bytes, i + 1, 144, 191) /\ IsCont(bytes, i + 2)
                   /\ IsCont(bytes, i + 3) /\ Utf8From(bytes, i + 4)
         ELSE IF c >= 241 /\ c <= 243
              THEN IsCont(bytes, i + 1) /\ IsCont(bytes, i + 2)
                   /\ IsCont(bytes, i + 3) /\ Utf8From(bytes, i + 4)
         ELSE IF c = 244
              THEN InRange(bytes, i + 1, 128, 143) /\ IsCont(bytes, i + 2)
                   /\ IsCont(bytes, i + 3) /\ Utf8From(bytes, i + 4)
         ELSE FALSE

from_utf8_ok(bytes) == Utf8From(bytes, 1)

(***************************************************************************)
(* buf_encode / encode / encode_slice.                                     *)
(***************************************************************************)
RECURSIVE buf_encode(_)
RECURSIVE encode_items(_)
encode_items(items) ==
    IF items = <<>> THEN <<>>
    ELSE buf_encode(Head(items)) \o encode_items(Tail(items))

\* mutant: an Array is closed by a CR LF of its own
RECURSIVE buf_encode_Terminated(_)
buf_encode_Terminated(value) ==
    CASE value.t = "Null" -> NULL_BYTES
      [] value.t = "NullArray" -> NULL_ARRAY_BYTES
      [] value.t = "String" -> <<PLUS>> \o value.p \o CLRF_BYTES
      [] value.t = "Error" -> <<MINUS>> \o value.p \o CLRF_BYTES
      [] value.t = "Integer" -> <<COLON>> \o I64ToString(value.p) \o CLRF_BYTES
      [] value.t = "Bulk" ->
            <<DOLLAR>> \o UsizeToString(Len(value.p)) \o CLRF_BYTES
                \o value.p \o CLRF_BYTES
      [] value.t = "BufBulk" ->
            <<DOLLAR>> \o UsizeToString(Len(value.p)) \o CLRF_BYTES
                \o value.p \o CLRF_BYTES
      [] value.t = "Array" ->
            <<STAR>> \o UsizeToString(Len(value.p)) \o CLRF_BYTES
                \o encode_items(value.p) \o CLRF_BYTES

buf_encode(value) ==
    CASE value.t = "Null" -> NULL_BYTES
      [] value.t = "NullArray" -> NULL_ARRAY_BYTES
      [] value.t = "String" -> <<PLUS>> \o value.p \o CLRF_BYTES
      [] value.t = "Error" -> <<MINUS>> \o value.p \o CLRF_BYTES
      [] value.t = "Integer" -> <<COLON>> \o I64ToString(value.p) \o CLRF_BYTES
      [] value.t = "Bulk" ->
            <<DOLLAR>> \o UsizeToString(Len(value.p)) \o CLRF_BYTES
                \o value.p \o CLRF_BYTES
      [] value.t = "BufBulk" ->
            <<DOLLAR>> \o UsizeToString(Len(value.p)) \o CLRF_BYTES
                \o value.p \o CLRF_BYTES
      [] value.t = "Array" ->
            <<STAR>> \o UsizeToString(Len(value.p)) \o CLRF_BYTES
                \o encode_items(value.p)

encode(value) == buf_encode(value)

\* mutant: the bytes are turned into text without the UTF-8 check
to_encoded_string_Unchecked(value) ==
    [ok |-> TRUE, string |-> encode(value)]

\* Value::to_encoded_string: String::from_utf8 of the encoding; Ok(string)
\* keeps the same bytes, Err is an io::Error of kind InvalidData
to_encoded_string(value) ==
    IF from_utf8_ok(encode(value))
    THEN [ok |-> TRUE, string |-> encode(value)]
    ELSE [ok |-> FALSE, string |-> <<>>]

\* mutant: the strings are encoded as simple strings
encode_slice_Simple(slice) ==
    buf_encode(Array([i \in 1..Len(slice) |-> String(slice[i])]))

encode_slice(slice) ==
    buf_encode(Array([i \in 1..Len(slice) |-> Bulk(slice[i])]))


(***************************************************************************)
(* parse_string, parse_integer, is_crlf, read_crlf.                        *)
(***************************************************************************)
\* Ok(string) iff the bytes are UTF-8; the String keeps the same bytes
parse_string(bytes) == [ok |-> from_utf8_ok(bytes), string |-> bytes]

\* mutant: the i64 range is not checked
parse_integer_NoRange(bytes) ==
    LET signed == bytes # <<>> /\ bytes[1] \in {PLUS, MINUS}
        neg == bytes # <<>> /\ bytes[1] = MINUS
        ds == IF signed THEN Tail(bytes) ELSE bytes
        digits == \A i \in 1..Len(ds) : ds[i] >= ZERO /\ ds[i] <= ZERO + 9
        mag == StripZeros([i \in 1..Len(ds) |-> ds[i] - ZERO])
    IN  IF from_utf8_ok(bytes) /\ ds # <<>> /\ digits
        THEN [ok |-> TRUE, int |-> [neg |-> neg /\ mag # <<0>>, mag |-> mag]]
        ELSE [ok |-> FALSE, int |-> I64(0)]

\* str::from_utf8 then str::parse::<i64>: an optional sign, then one or more
\* ASCII digits, the number within the i64 range
parse_integer(bytes) ==
    LET signed == bytes # <<>> /\ bytes[1] \in {PLUS, MINUS}
        neg == bytes # <<>> /\ bytes[1] = MINUS
        ds == IF signed THEN Tail(bytes) ELSE bytes
        digits == \A i \in 1..Len(ds) : ds[i] >= ZERO /\ ds[i] <= ZERO + 9
        mag == StripZeros([i \in 1..Len(ds) |-> ds[i] - ZERO])
    IN  IF /\ from_utf8_ok(bytes)
           /\ ds # <<>>
           /\ digits
           /\ MagLeq(mag, IF neg THEN I64_MIN_MAG ELSE I64_MAX_MAG)
        THEN [ok |-> TRUE, int |-> [neg |-> neg /\ mag # <<0>>, mag |-> mag]]
        ELSE [ok |-> FALSE, int |-> I64(0)]

is_crlf(a, b) == a = CR /\ b = LF

\* Some(pos) is pos, None is -1
read_crlf(buffer, start) ==
    LET found == {pos \in start..(Len(buffer) - 2) :
                     is_crlf(At(buffer, pos), At(buffer, pos + 1))}
    IN  IF found = {} THEN -1
        ELSE CHOOSE pos \in found : \A q \in found : pos <= q

(***************************************************************************)
(* ErrorMessage and ParseResult.                                           *)
(***************************************************************************)
ErrorMessage_to_string(message) ==
    CASE message = "ParseString" -> "Parse '+' failed"
      [] message = "ParseError" -> "Parse '-' failed"
      [] message = "ParseInteger" -> "Parse ':' failed"
      [] message = "ParseBulk" -> "Parse '$' failed"
      [] message = "ParseArray" -> "Parse '*' failed"
      [] message = "ParseInvalid" -> "Invalid Chunk: parse failed"

\* Option<ParseResult>: None, Some(Res(value, pos)), Some(Err(message))
PNone == [k |-> "None", value |-> Null, pos |-> 0, message |-> ""]
PRes(value, pos) == [k |-> "Res", value |-> value, pos |-> pos, message |-> ""]
PErr(message) == [k |-> "Err", value |-> Null, pos |-> 0, message |-> message]

(***************************************************************************)
(* parse_one_value.  parse_array_items is the `for _ in 0..int` loop of    *)
(* the '*' branch: count elements are still to be parsed, array holds the  *)
(* elements parsed so far.                                                 *)
(***************************************************************************)
\* mutant: every line error is reported as the '+' error
parse_line_OneKind(buffer, offset, marker) ==
    LET pos == read_crlf(buffer, offset) IN
    IF pos = -1 THEN PNone
    ELSE LET bytes == Slice(buffer, offset, pos) IN
         CASE marker = PLUS ->
                IF parse_string(bytes).ok
                THEN PRes(String(parse_string(bytes).string), pos + 2)
                ELSE PErr("ParseString")
           [] marker = MINUS ->
                IF parse_string(bytes).ok
                THEN PRes(Error(parse_string(bytes).string), pos + 2)
                ELSE PErr("ParseString")
           [] marker = COLON ->
                IF parse_integer(bytes).ok
                THEN PRes(Integer(parse_integer(bytes).int), pos + 2)
                ELSE PErr("ParseString")

\* mutant: the LF that ends the line is left in the buffer
parse_line_ShortPos(buffer, offset, marker) ==
    LET pos == read_crlf(buffer, offset) IN
    IF pos = -1 THEN PNone
    ELSE LET bytes == Slice(buffer, offset, pos) IN
         CASE marker = PLUS ->
                IF parse_string(bytes).ok
                THEN PRes(String(parse_string(bytes).string), pos + 1)
                ELSE PErr("ParseString")
           [] marker = MINUS ->
                IF parse_string(bytes).ok
                THEN PRes(Error(parse_string(bytes).string), pos + 1)
                ELSE PErr("ParseError")
           [] marker = COLON ->
                IF parse_integer(bytes).ok
                THEN PRes(Integer(parse_integer(bytes).int), pos + 1)
                ELSE PErr("ParseInteger")

parse_line(buffer, offset, marker) ==
    LET pos == read_crlf(buffer, offset) IN
    IF pos = -1 THEN PNone
    ELSE LET bytes == Slice(buffer, offset, pos) IN
         CASE marker = PLUS ->
                IF parse_string(bytes).ok
                THEN PRes(String(parse_string(bytes).string), pos + 2)
                ELSE PErr("ParseString")
           [] marker = MINUS ->
                IF parse_string(bytes).ok
                THEN PRes(Error(parse_string(bytes).string), pos + 2)
                ELSE PErr("ParseError")
           [] marker = COLON ->
                IF parse_integer(bytes).ok
                THEN PRes(Integer(parse_integer(bytes).int), pos + 2)
                ELSE PErr("ParseInteger")

\* mutant: a payload that has not arrived yet is an error
parse_bulk_payload_Eager(buffer, offset, int, buf_bulk) ==
    LET end == int + offset IN
    IF end + 1 >= Len(buffer) THEN PErr("ParseBulk")
    ELSE IF ~is_crlf(At(buffer, end), At(buffer, end + 1))
         THEN PErr("ParseBulk")
    ELSE LET bytes == Slice(buffer, offset, end) IN
         IF buf_bulk THEN PRes(BufBulk(bytes), end + 2)
         ELSE IF parse_string(bytes).ok
              THEN PRes(Bulk(parse_string(bytes).string), end + 2)
              ELSE PErr("ParseBulk")

\* mutant: the two bytes after the payload are not looked at
parse_bulk_payload_NoTerminator(buffer, offset, int, buf_bulk) ==
    LET end == int + offset IN
    IF end + 1 >= Len(buffer) THEN PNone
    ELSE LET bytes == Slice(buffer, offset, end) IN
         IF buf_bulk THEN PRes(BufBulk(bytes), end + 2)
         ELSE IF parse_string(bytes).ok
              THEN PRes(Bulk(parse_string(bytes).string), end + 2)
              ELSE PErr("ParseBulk")

\* mutant: in text mode the payload is not validated
parse_bulk_payload_Unchecked(buffer, offset, int, buf_bulk) ==
    LET end == int + offset IN
    IF end + 1 >= Len(buffer) THEN PNone
    ELSE IF ~is_crlf(At(buffer, end), At(buffer, end + 1))
         THEN PErr("ParseBulk")
    ELSE LET bytes == Slice(buffer, offset, end) IN
         IF buf_bulk THEN PRes(BufBulk(bytes), end + 2)
         ELSE PRes(Bulk(bytes), end + 2)

\* the payload of a `$` element of declared length int, 0 <= int <
\* RESP_MAX_SIZE, the header ending at offset
parse_bulk_payload(buffer, offset, int, buf_bulk) ==
    LET end == int + offset IN
    IF end + 1 >= Len(buffer) THEN PNone
    ELSE IF ~is_crlf(At(buffer, end), At(buffer, end + 1))
         THEN PErr("ParseBulk")
    ELSE LET bytes == Slice(buffer, offset, end) IN
         IF buf_bulk THEN PRes(BufBulk(bytes), end + 2)
         ELSE IF parse_string(bytes).ok
              THEN PRes(Bulk(parse_string(bytes).string), end + 2)
              ELSE PErr("ParseBulk")

\* mutant: a declared -1 waits for two more bytes and consumes them
parse_bulk_NullPayload(buffer, offset0, buf_bulk) ==
    LET pos == read_crlf(buffer, offset0) IN
    IF pos = -1 THEN PNone
    ELSE LET r == parse_integer(Slice(buffer, offset0, pos))
             offset == pos + 2
         IN  IF ~r.ok THEN PErr("ParseBulk")
             ELSE IF I64IsMinusOne(r.int)
                  THEN IF offset + 1 >= Len(buffer) THEN PNone
                       ELSE PRes(Null, offset + 2)
             ELSE IF I64LtMinusOne(r.int) \/ I64GeMaxSize(r.int)
                  THEN PErr("ParseBulk")
             ELSE parse_bulk_payload(buffer, offset, I64AsUsize(r.int),
                                     buf_bulk)

parse_bulk(buffer, offset0, buf_bulk) ==
    LET pos == read_crlf(buffer, offset0) IN
    IF pos = -1 THEN PNone
    ELSE LET r == parse_integer(Slice(buffer, offset0, pos))
             offset == pos + 2
         IN  IF ~r.ok THEN PErr("ParseBulk")
             ELSE IF I64IsMinusOne(r.int) THEN PRes(Null, offset)
             ELSE IF I64LtMinusOne(r.int) \/ I64GeMaxSize(r.int)
                  THEN PErr("ParseBulk")
             ELSE parse_bulk_payload(buffer, offset, I64AsUsize(r.int),
                                     buf_bulk)

RECURSIVE parse_one_value(_, _, _)
RECURSIVE parse_array_items(_, _, _, _, _)
\* mutant: an array whose next element has not arrived is returned as far as
\* it was parsed
RECURSIVE parse_array_items_Partial(_, _, _, _, _)
parse_array_items_Partial(buffer, offset, buf_bulk, count, array) ==
    IF count = 0 THEN PRes(Array(array), offset)
    ELSE LET r == parse_one_value(buffer, offset, buf_bulk) IN
         CASE r.k = "Res" ->
                parse_array_items_Partial(buffer, r.pos, buf_bulk, count - 1,
                                          Append(array, r.value))
           [] r.k = "Err" -> PErr(r.message)
           [] r.k = "None" -> PRes(Array(array), offset)

\* mutant: the error of a sub-element is held back until the sub-elements
\* after it have arrived
RECURSIVE parse_array_items_Defer(_, _, _, _, _)
parse_array_items_Defer(buffer, offset, buf_bulk, count, array) ==
    IF count = 0 THEN PRes(Array(array), offset)
    ELSE LET r == parse_one_value(buffer, offset, buf_bulk) IN
         CASE r.k = "Res" ->
                parse_array_items_Defer(buffer, r.pos, buf_bulk, count - 1,
                                        Append(array, r.value))
           [] r.k = "Err" -> IF count > 1 THEN PNone ELSE PErr(r.message)
           [] r.k = "None" -> PNone

\* mutant: the error of a sub-element is reported as the array error
RECURSIVE parse_array_items_Wrap(_, _, _, _, _)
parse_array_items_Wrap(buffer, offset, buf_bulk, count, array) ==
    IF count = 0 THEN PRes(Array(array), offset)
    ELSE LET r == parse_one_value(buffer, offset, buf_bulk) IN
         CASE r.k = "Res" ->
                parse_array_items_Wrap(buffer, r.pos, buf_bulk, count - 1,
                                       Append(array, r.value))
           [] r.k = "Err" -> PErr("ParseArray")
           [] r.k = "None" -> PNone

parse_array_items(buffer, offset, buf_bulk, count, array) ==
    IF count = 0 THEN PRes(Array(array), offset)
    ELSE LET r == parse_one_value(buffer, offset, buf_bulk) IN
         CASE r.k = "Res" ->
                parse_array_items(buffer, r.pos, buf_bulk, count - 1,
                                  Append(array, r.value))
           [] r.k = "Err" -> PErr(r.message)
           [] r.k = "None" -> PNone

parse_array(buffer, offset0, buf_bulk) ==
    LET pos == read_crlf(buffer, offset0) IN
    IF pos = -1 THEN PNone
    ELSE LET r == parse_integer(Slice(buffer, offset0, pos))
             offset == pos + 2
         IN  IF ~r.ok THEN PErr("ParseArray")
             ELSE IF I64IsMinusOne(r.int) THEN PRes(NullArray, offset)
             ELSE IF I64LtMinusOne(r.int) \/ I64GeMaxSize(r.int)
                  THEN PErr("ParseArray")
             ELSE parse_array_items(buffer, offset, buf_bulk,
                                    I64AsUsize(r.int), <<>>)

\* mutant: an unknown marker waits for more bytes
RECURSIVE parse_one_value_Wait(_, _, _)
parse_one_value_Wait(buffer, offset, buf_bulk) ==
    IF offset + 3 > Len(buffer) THEN PNone
    ELSE LET identifier == At(buffer, offset) IN
         CASE identifier \in {PLUS, MINUS, COLON} ->
                parse_line(buffer, offset + 1, identifier)
           [] identifier = DOLLAR -> parse_bulk(buffer, offset + 1, buf_bulk)
           [] identifier = STAR -> parse_array(buffer, offset + 1, buf_bulk)
           [] OTHER -> PNone

parse_one_value(buffer, offset, buf_bulk) ==
    IF offset + 3 > Len(buffer) THEN PNone
    ELSE LET identifier == At(buffer, offset) IN
         CASE identifier \in {PLUS, MINUS, COLON} ->
                parse_line(buffer, offset + 1, identifier)
           [] identifier = DOLLAR -> parse_bulk(buffer, offset + 1, buf_bulk)
           [] identifier = STAR -> parse_array(buffer, offset + 1, buf_bulk)
           [] OTHER -> PErr("ParseInvalid")

(***************************************************************************)
(* Decoder: a record [buf_bulk, pos, buf, res].                            *)
(***************************************************************************)
Decoder_new == [buf_bulk |-> FALSE, pos |-> 0, buf |-> <<>>, res |-> <<>>]
Decoder_with_buf_bulk ==
    [buf_bulk |-> TRUE, pos |-> 0, buf |-> <<>>, res |-> <<>>]

\* std::io::ErrorKind: the kinds of a std::io::Error, the error type of the
\* io::Result that feed returns
IoErrorKind ==
    {"NotFound", "PermissionDenied", "ConnectionRefused", "ConnectionReset",
     "ConnectionAborted", "NotConnected", "AddrInUse", "AddrNotAvailable",
     "BrokenPipe", "AlreadyExists", "WouldBlock", "InvalidInput",
     "InvalidData", "TimedOut", "WriteZero", "Interrupted", "Other",
     "UnexpectedEof"}

\* Result<()>: Ok(()) or Err(io::Error::new(kind, message))
RetOk == [ok |-> TRUE, kind |-> "", message |-> ""]
\* mutant: the error is made with ErrorKind::Other
RetErr_Other(message) ==
    [ok |-> FALSE, kind |-> "Other",
     message |-> ErrorMessage_to_string(message)]

RetErr(message) ==
    [ok |-> FALSE, kind |-> "InvalidData",
     message |-> ErrorMessage_to_string(message)]

\* mutant: a consumed buffer is never cleared
prune_buf_Never(self) == self

\* mutant: the buffer is cleared, the cursor is not reset
prune_buf_KeepPos(self) ==
    IF self.pos = Len(self.buf) THEN [self EXCEPT !.buf = <<>>] ELSE self

prune_buf(self) ==
    IF self.pos = Len(self.buf)
    THEN [self EXCEPT !.pos = 0, !.buf = <<>>]
    ELSE self

\* mutant: the buffer is kept
parse_err_Keep(self, message) == [self |-> self, ret |-> RetErr(message)]

\* mutant: only the bytes before the cursor are dropped
parse_err_Front(self, message) ==
    [self |-> [self EXCEPT !.pos = 0,
                           !.buf = Slice(self.buf, self.pos, Len(self.buf))],
     ret |-> RetErr(message)]

\* mutant: the queue is dropped with the buffer
parse_err_ClearQueue(self, message) ==
    [self |-> prune_buf([self EXCEPT !.pos = Len(self.buf), !.res = <<>>]),
     ret |-> RetErr(message)]

\* mutant: only the byte at the cursor is dropped
parse_err_SkipOne(self, message) ==
    [self |-> prune_buf([self EXCEPT !.pos = self.pos + 1]),
     ret |-> RetErr(message)]

\* the Err arm of parse: the whole buffer is dropped
parse_err(self, message) ==
    [self |-> prune_buf([self EXCEPT !.pos = Len(self.buf)]),
     ret |-> RetErr(message)]

\* mutant: parse stops after the first Value instead of parsing on
parse_Once(self) ==
    LET r == parse_one_value(Slice(self.buf, self.pos, Len(self.buf)), 0,
                             self.buf_bulk)
        looked == IF Len(self.buf) - self.pos >= 3 THEN 1 ELSE 0
    IN  CASE r.k = "Res" ->
               [self |-> prune_buf(
                             [self EXCEPT !.res = Append(self.res, r.value),
                                          !.pos = self.pos + r.pos]),
                ret |-> RetOk, scans |-> looked, calls |-> 1]
          [] r.k = "Err" ->
               [self |-> parse_err(self, r.message).self,
                ret |-> parse_err(self, r.message).ret,
                scans |-> looked, calls |-> 1]
          [] r.k = "None" -> [self |-> self, ret |-> RetOk, scans |-> looked,
                              calls |-> 1]

\* parse returns the decoder it leaves, the Result and, for the record, scans:
\* the number of its calls of parse_one_value that looked at the unconsumed
\* bytes (parse_one_value returns None without reading a byte when fewer than
\* 3 are buffered), and calls: the number of times parse ran
RECURSIVE parse(_)
parse(self) ==
    LET r == parse_one_value(Slice(self.buf, self.pos, Len(self.buf)), 0,
                             self.buf_bulk)
        looked == IF Len(self.buf) - self.pos >= 3 THEN 1 ELSE 0
    IN  CASE r.k = "Res" ->
               LET rest == parse(prune_buf(
                               [self EXCEPT !.res = Append(self.res, r.value),
                                            !.pos = self.pos + r.pos]))
               IN  [rest EXCEPT !.scans = rest.scans + looked,
                                !.calls = rest.calls + 1]
          [] r.k = "Err" ->
               [self |-> parse_err(self, r.message).self,
                ret |-> parse_err(self, r.message).ret,
                scans |-> looked, calls |-> 1]
          [] r.k = "None" -> [self |-> self, ret |-> RetOk, scans |-> looked,
                              calls |-> 1]

\* the least number of unconsumed bytes with which the element that the
\* bytes b open can be complete: header, payload and CR LF for a `$` element
\* whose header is buffered, one byte more than b otherwise
NeededBytes(b) ==
    LET pos == read_crlf(b, 1)
        r == parse_integer(Slice(b, 1, pos))
    IN  IF /\ b # <<>> /\ b[1] = DOLLAR /\ pos # -1 /\ r.ok
           /\ ~r.int.neg /\ ~I64GeMaxSize(r.int)
        THEN pos + 2 + I64AsUsize(r.int) + 2
        ELSE Len(b) + 1

\* mutant: the chunk replaces the buffer instead of extending it
feed_Replace(self, bytes) == parse([self EXCEPT !.buf = bytes])

\* mutant: no parse while fewer bytes are buffered than the pending element
\* needs
feed_Lazy(self, bytes) ==
    LET new == [self EXCEPT !.buf = self.buf \o bytes]
        before == Slice(self.buf, self.pos, Len(self.buf))
    IN  IF Len(new.buf) - new.pos < NeededBytes(before)
        THEN [self |-> new, ret |-> RetOk, scans |-> 0, calls |-> 0]
        ELSE parse(new)

\* mutant: the chunk is put before the unconsumed bytes instead of after them
feed_Prepend(self, bytes) ==
    parse([self EXCEPT !.buf = SubSeq(self.buf, 1, self.pos) \o bytes
                                \o Slice(self.buf, self.pos, Len(self.buf))])

feed(self, bytes) == parse([self EXCEPT !.buf = self.buf \o bytes])

\* mutant: the newest Value is removed instead of the oldest
read_Newest(self) ==
    IF Len(self.res) = 0 THEN [self |-> self, val |-> <<>>]
    ELSE [self |-> [self EXCEPT !.res = SubSeq(self.res, 1, Len(self.res) - 1)],
          val |-> <<self.res[Len(self.res)]>>]

\* mutant: read also drops the buffered bytes
read_Prune(self) ==
    IF Len(self.res) = 0 THEN [self |-> self, val |-> <<>>]
    ELSE [self |-> [self EXCEPT !.res = Tail(self.res), !.pos = 0, !.buf = <<>>],
          val |-> <<Head(self.res)>>]

\* read returns the decoder it leaves and the Option<Value>: <<>> is None,
\* <<v>> is Some(v)
read(self) ==
    IF Len(self.res) = 0 THEN [self |-> self, val |-> <<>>]
    ELSE [self |-> [self EXCEPT !.res = Tail(self.res)],
          val |-> <<Head(self.res)>>]

buffer_len(self) == Len(self.buf)
result_len(self) == Len(self.res)

(***************************************************************************)
(* The state.  buf_bulk, pos, buf, res are the fields of the Decoder.      *)
(* sent  : the messages the peer writes to the transport, in order; each   *)
(*         is the encoding of a Value the peer built (val = <<v>>) or raw  *)
(*         bytes (val = <<>>)                                              *)
(* fed   : the number of bytes of the stream delivered to feed so far      *)
(* ret   : the last call (op), the Result of the last feed call and the    *)
(*         Option of the last read call                                    *)
(* popped: the Values read() has returned, in order                        *)
(* chunking: how the transport cuts the stream into feed calls: "oneshot"  *)
(*         (the whole stream in one call), "bytes" (one byte per call) or  *)
(*         "any" (any chunk sizes, the empty chunk included)               *)
(***************************************************************************)
VARIABLES buf_bulk, pos, buf, res, sent, fed, ret, popped, chunking

vars == <<buf_bulk, pos, buf, res, sent, fed, ret, popped, chunking>>

Self == [buf_bulk |-> buf_bulk, pos |-> pos, buf |-> buf, res |-> res]

\* bounds of the model
MaxMsgs == 2
MaxWire == 22

Val(v) == [val |-> <<v>>, bytes |-> encode(v)]
Raw(bytes) == [val |-> <<>>, bytes |-> bytes]

RECURSIVE Flatten(_)
Flatten(msgs) ==
    IF msgs = <<>> THEN <<>> ELSE Head(msgs).bytes \o Flatten(Tail(msgs))

Stream == Flatten(sent)

\* the streams of at most MaxMsgs messages and MaxWire bytes over a set
Streams(Msgs) ==
    {s \in UNION {[1..k -> Msgs] : k \in 0..MaxMsgs} : Len(Flatten(s)) <= MaxWire}

\* the Values the peer encodes
OK_ == <<79, 75>>
Values ==
    { Array(<<Null, Integer(I64(123)), Bulk(<<120>>)>>),
      Array(<<Array(<<NullArray>>), Error(<<101>>)>>),
      Bulk(<<>>),
      Null,
      BufBulk(<<120>>),
      Array(<<String(<<97, CR, LF, 98>>), Integer(I64(1))>>),
      Array(<<BufBulk(<<255>>), Integer(I64(1))>>),
      String(OK_),
      Integer(I64(-7)) }

InitDecoder(d) ==
    /\ buf_bulk = d.buf_bulk
    /\ pos = d.pos
    /\ buf = d.buf
    /\ res = d.res
    /\ fed = 0
    /\ ret = [op |-> "new", result |-> RetOk, val |-> <<>>]
    /\ popped = <<>>
    /\ chunking \in {"oneshot", "bytes", "any"}

InitOver(Msgs) ==
    /\ sent \in Streams(Msgs)
    /\ \E d \in {Decoder_new, Decoder_with_buf_bulk} : InitDecoder(d)

Init == InitOver({Val(v) : v \in Values})

\* malformed input, as in tests::struct_decoder_feed_error, and Values to
\* follow it
ErrMsgs ==
    { Raw(<<38, MINUS, 49, CR, LF>>),                 \* &-1\r\n
      Raw(<<DOLLAR, CR, LF>>),                        \* $\r\n
      Raw(<<PLUS, 79, 75, 230, 173, CR, LF>>),        \* +OK, cut UTF-8, \r\n
      Raw(<<DOLLAR, MINUS, 50, CR, LF>>),             \* $-2\r\n
      Raw(<<STAR, 50, CR, LF, COLON, 49, CR, LF, 38, 120, CR, LF>>),
                                                      \* *2\r\n:1\r\n&x\r\n
      Raw(NULL_BYTES \o <<38, MINUS, 49, CR, LF>>),   \* $-1\r\n&-1\r\n
      Val(Null),
      Val(Bulk(<<>>)),
      Val(Integer(I64(123))),
      Val(Array(<<String(<<97, CR, LF, 98>>), Integer(I64(1))>>)) }

InitErr == InitOver(ErrMsgs)

\* the shortest elements: 3 bytes is the least parse_one_value looks at
TinyMsgs ==
    { Val(String(<<>>)),                              \* +\r\n
      Val(Integer(I64(0))),                           \* :0\r\n
      Val(Null),                                      \* $-1\r\n
      Val(Array(<<String(<<>>)>>)),                   \* *1\r\n+\r\n
      Raw(<<38, CR, LF>>),                            \* &\r\n
      Raw(<<PLUS, CR>>) }                             \* +\r

InitTiny == InitOver(TinyMsgs)

\* the header of a `$` or `*` element declaring the length or count n
Header(marker, n) == <<marker>> \o I64ToString(I64(n)) \o CLRF_BYTES

\* declared lengths around the two ends of the accepted range
BoundCases ==
    {-RESP_MAX_SIZE, -2, -1, 0, 1, RESP_MAX_SIZE - 1, RESP_MAX_SIZE,
     RESP_MAX_SIZE + 1, 2147483647}

BoundMsgs == {Raw(Header(marker, n)) : marker \in {DOLLAR, STAR}, n \in BoundCases}

InitBound == InitOver(BoundMsgs)

\* `$` elements as raw bytes: a declared length n and the n + 2 bytes that
\* follow the header, with and without CR LF in the last two
BulkCases ==
    { [n |-> 0, body |-> <<CR, LF>>],
      [n |-> 0, body |-> <<97, 98>>],
      [n |-> 1, body |-> <<120, CR, LF>>],
      [n |-> 1, body |-> <<120, 121, LF>>],
      [n |-> 1, body |-> <<255, CR, LF>>],
      [n |-> 2, body |-> <<CR, LF, CR, LF>>],
      [n |-> 2, body |-> <<CR, LF, 97, 98>>],
      [n |-> 2, body |-> <<120, CR, CR, LF>>] }

BulkBytes(c) == Header(DOLLAR, c.n) \o c.body

InitBulk == InitOver({Raw(BulkBytes(c)) : c \in BulkCases})

\* Values with `$` elements of both variants, top-level and nested, with
\* UTF-8 and non-UTF-8 payloads, as in tests::struct_decoder_with_buf_bulk
ModeValues ==
    { Bulk(<<120>>),
      BufBulk(<<120>>),
      BufBulk(<<255>>),
      Null,
      Array(<<BufBulk(<<255>>), Integer(I64(1))>>),
      Array(<<Bulk(<<195, 169>>), BufBulk(<<255>>)>>),
      Array(<<Bulk(<<120>>), Array(<<BufBulk(<<121>>)>>)>>) }

InitMode == InitOver({Val(v) : v \in ModeValues})

\* the Values of tests::enum_encode_*, and the ends of the i64 range, a
\* payload with a two-digit length and a nested Array
EncValues ==
    { Null,
      NullArray,
      String(<<79, 75, 230, 173, 163>>),
      Error(<<101, 114, 114, 111, 114, 32, 109, 101, 115, 115, 97, 103, 101>>),
      Integer(I64(123456789)),
      Integer(I64(-123456789)),
      Integer(I64(0)),
      Integer([neg |-> TRUE, mag |-> I64_MIN_MAG]),
      Bulk(<<79, 75, 230, 173, 163>>),
      BufBulk(<<79, 75>>),
      Bulk(<<48, 49, 50, 51, 52, 53, 54, 55, 56, 57>>),
      Array(<<>>),
      Array(<<Null, NullArray, String(OK_), Error(<<109, 101, 115, 115, 97, 103, 101>>),
              Integer(I64(123456789)), Bulk(<<72, 101, 108, 108, 111>>), BufBulk(OK_)>>),
      Array(<<Array(<<Integer(I64(1)), Array(<<>>)>>), Null>>) }

\* the string lists of tests::fn_encode_slice, the empty list and the empty
\* and multi-byte strings
Slices ==
    { <<>>,
      <<<<83, 69, 84>>, <<97>>, <<49>>>>,
      <<<<>>>>,
      <<<<79, 75, 230, 173, 163>>, <<>>>> }

\* Values whose BufBulk bytes are not UTF-8: alone, nested, after a Bulk, and
\* a character cut in two across two payloads
BinaryValues ==
    { BufBulk(<<255>>),
      BufBulk(<<230, 173>>),
      Array(<<Bulk(<<195, 169>>), BufBulk(<<255>>)>>),
      Array(<<Integer(I64(1)), Array(<<BufBulk(<<128>>)>>)>>),
      Array(<<BufBulk(<<195>>), BufBulk(<<169>>)>>) }

\* nothing is written yet; the decoder at the other end is not fed
InitEnc ==
    /\ sent = <<>>
    /\ InitDecoder(Decoder_new)
    /\ chunking = "any"

\* malformed elements of every marker, each ending with the byte that makes
\* it malformed, as in tests::struct_decoder_feed_error
Malformed ==
    { <<PLUS, 255, CR, LF>>,                          \* + and a non-UTF-8 byte
      <<MINUS, 255, CR, LF>>,                         \* - and a non-UTF-8 byte
      <<COLON, 120, CR, LF>>,                         \* :x\r\n
      <<COLON, CR, LF>>,                              \* :\r\n
      <<DOLLAR, CR, LF>>,                             \* $\r\n
      Header(DOLLAR, -2),                             \* $-2\r\n
      Header(DOLLAR, RESP_MAX_SIZE),                  \* $536870912\r\n
      Header(DOLLAR, 1) \o <<120, 121, 122>>,         \* $1\r\nxyz
      Header(DOLLAR, 1) \o <<255, CR, LF>>,           \* $1\r\n, non-UTF-8
      <<STAR, 120, CR, LF>>,                          \* *x\r\n
      Header(STAR, -2),                               \* *-2\r\n
      Header(STAR, RESP_MAX_SIZE),                    \* *536870912\r\n
      <<38, MINUS, 49>> }                             \* &-1

\* the malformed elements, and the header of an Array of one element that
\* may precede them
KindMsgs == {Raw(m) : m \in Malformed} \cup {Raw(Header(STAR, 1))}

InitKind == InitOver(KindMsgs)

\* the first bytes of Arrays of three elements, none or one of them buffered,
\* at top level and nested
ArrayOpens ==
    { Header(STAR, 3),
      Header(STAR, 3) \o <<COLON, 49, CR, LF>>,
      Header(STAR, 2) \o Header(STAR, 3) \o <<COLON, 49, CR, LF>> }

\* malformed elements, each ending with the byte that makes it malformed
BadElements ==
    { <<DOLLAR, CR, LF>>, <<38, MINUS, 49>>, <<PLUS, 255, CR, LF>>,
      <<COLON, 120, CR, LF>>, <<STAR, 120, CR, LF>> }

\* the openings, the malformed elements and a well-formed element
AbortMsgs ==
    {Raw(b) : b \in ArrayOpens \cup BadElements} \cup {Raw(<<COLON, 49, CR, LF>>)}

InitAbort == InitOver(AbortMsgs)

\* the bytes between a marker and its CR LF: integers in and out of the i64
\* range, signed, with leading zeros, and texts that are no integer
IntTexts ==
    { <<45, 55>>,
      <<43, 53>>,
      <<48, 48, 55>>,
      <<45, 48>>,
      <<>>,
      <<120>>,
      <<49, 97>>,
      <<45>>,
      <<49, 46, 53>>,
      DigitBytes(I64_MAX_MAG),                 \* 9223372036854775807
      DigitBytes(I64_MIN_MAG),                 \* 9223372036854775808
      <<MINUS>> \o DigitBytes(I64_MIN_MAG),    \* -9223372036854775808
      <<MINUS>> \o DigitBytes(<<9, 2, 2, 3, 3, 7, 2, 0, 3, 6, 8, 5, 4, 7, 7, 5, 8, 0, 9>>) }

\* `$` and `*` elements whose header is such a text
HeaderTexts ==
    { <<DOLLAR, PLUS, 49, CR, LF, 120, CR, LF>>,       \* $+1\r\nx\r\n
      <<DOLLAR, MINUS, ZERO, 49, CR, LF>>,             \* $-01\r\n
      <<DOLLAR, 120, CR, LF>>,                         \* $x\r\n
      <<STAR, PLUS, ZERO, CR, LF>>,                    \* *+0\r\n
      <<STAR, 32, ZERO, CR, LF>> }                     \* * 0\r\n

IntMsgs ==
    {Raw(<<COLON>> \o t \o CLRF_BYTES) : t \in IntTexts}
        \cup {Raw(h) : h \in HeaderTexts}

\* the streams of at most MaxMsgs messages and MaxIntWire bytes
MaxIntWire == 24

\* the most elements a stream of the integer-text specification holds
MaxIntMsgs == 1

InitInt ==
    /\ sent \in {st \in UNION {[1..k -> IntMsgs] : k \in 0..MaxIntMsgs} :
                    Len(Flatten(st)) <= MaxIntWire}
    /\ \E d \in {Decoder_new, Decoder_with_buf_bulk} : InitDecoder(d)
    /\ chunking = "any"

\* decoder.feed(&stream[fed .. fed + n])
Feed(n) ==
    LET r == feed(Self, SubSeq(Stream, fed + 1, fed + n)) IN
    /\ chunking = "oneshot" => fed = 0 /\ n = Len(Stream)
    /\ chunking = "bytes" => n = 1
    /\ pos' = r.self.pos
    /\ buf' = r.self.buf
    /\ res' = r.self.res
    /\ fed' = fed + n
    /\ ret' = [op |-> "feed", result |-> r.ret, val |-> <<>>]
    /\ UNCHANGED <<buf_bulk, sent, popped, chunking>>

\* decoder.read()
Read ==
    LET r == read(Self) IN
    /\ buf_bulk' = r.self.buf_bulk
    /\ pos' = r.self.pos
    /\ buf' = r.self.buf
    /\ res' = r.self.res
    /\ ret' = [op |-> "read", result |-> ret.result, val |-> r.val]
    /\ popped' = popped \o r.val
    /\ UNCHANGED <<sent, fed, chunking>>

\* decoder.buffer_len() and decoder.result_len(): they take &self and return a
\* number, kept in ret.val
BufferLen ==
    /\ ret' = [op |-> "buffer_len", result |-> ret.result,
               val |-> <<buffer_len(Self)>>]
    /\ UNCHANGED <<buf_bulk, pos, buf, res, sent, fed, popped, chunking>>

ResultLen ==
    /\ ret' = [op |-> "result_len", result |-> ret.result,
               val |-> <<result_len(Self)>>]
    /\ UNCHANGED <<buf_bulk, pos, buf, res, sent, fed, popped, chunking>>

\* the peer builds a Value, encodes it and writes the bytes to the transport
Encode(value) ==
    /\ Len(sent) < MaxMsgs
    /\ sent' = Append(sent, [val |-> <<value>>, bytes |-> encode(value)])
    /\ ret' = [op |-> "encode", result |-> ret.result, val |-> <<>>]
    /\ UNCHANGED <<buf_bulk, pos, buf, res, fed, popped, chunking>>

\* the peer encodes a list of strings with encode_slice and writes the bytes
EncodeSlice(slice) ==
    /\ Len(sent) < MaxMsgs
    /\ sent' = Append(sent, [val |-> <<Array([i \in 1..Len(slice) |->
                                                Bulk(slice[i])])>>,
                              bytes |-> encode_slice(slice)])
    /\ ret' = [op |-> "encode_slice", result |-> ret.result, val |-> <<>>]
    /\ UNCHANGED <<buf_bulk, pos, buf, res, fed, popped, chunking>>

\* value.to_encoded_string(): ret.val keeps the Value and the Result
ToEncodedString(value) ==
    /\ ret' = [op |-> "to_encoded_string", result |-> ret.result,
               val |-> <<value, to_encoded_string(value)>>]
    /\ UNCHANGED <<buf_bulk, pos, buf, res, sent, fed, popped, chunking>>

NextEnc ==
    \/ \E value \in EncValues : Encode(value)
    \/ \E slice \in Slices : EncodeSlice(slice)
    \/ \E value \in EncValues \cup BinaryValues : ToEncodedString(value)

Next ==
    \/ \E n \in 0..(Len(Stream) - fed) : Feed(n)
    \/ Read

NextQuery ==
    \/ Next
    \/ BufferLen
    \/ ResultLen

Spec == Init /\ [][Next]_vars

SpecErr == InitErr /\ [][Next]_vars

SpecBound == InitBound /\ [][Next]_vars

SpecBulk == InitBulk /\ [][Next]_vars

SpecMode == InitMode /\ [][Next]_vars

SpecKind == InitKind /\ [][Next]_vars

SpecQuery == Init /\ [][NextQuery]_vars

SpecAbort == InitAbort /\ [][Next]_vars

SpecInt == InitInt /\ [][Next]_vars
SpecTiny == InitTiny /\ [][Next]_vars

SpecEnc == InitEnc /\ [][NextEnc]_vars


(***************************************************************************)
(* Vocabulary of the properties.                                           *)
(***************************************************************************)
IsPrefix(s, t) == Len(s) <= Len(t) /\ s = SubSeq(t, 1, Len(s))

HasCRLF(s) == \E i \in 1..(Len(s) - 1) : is_crlf(s[i], s[i + 1])

\* every message of the stream is the encoding of a Value
AllVals == \A i \in 1..Len(sent) : sent[i].val # <<>>
Vals == [i \in 1..Len(sent) |-> sent[i].val[1]]

\* the decoder the run started from
InitialDecoder == IF buf_bulk THEN Decoder_with_buf_bulk ELSE Decoder_new

\* v holds no BufBulk whose bytes are not UTF-8
RECURSIVE NoBadBufBulk(_)
NoBadBufBulk(v) ==
    CASE v.t = "BufBulk" -> from_utf8_ok(v.p)
      [] v.t = "Array" -> \A i \in 1..Len(v.p) : NoBadBufBulk(v.p[i])
      [] OTHER -> TRUE

\* no String or Error of v holds a CR LF pair
RECURSIVE NoCRLFText(_)
NoCRLFText(v) ==
    CASE v.t \in {"String", "Error"} -> ~HasCRLF(v.p)
      [] v.t = "Array" -> \A i \in 1..Len(v.p) : NoCRLFText(v.p[i])
      [] OTHER -> TRUE

\* v holds none of the variants of tags
RECURSIVE NoVariant(_, _)
NoVariant(v, tags) ==
    /\ v.t \notin tags
    /\ v.t = "Array" => \A i \in 1..Len(v.p) : NoVariant(v.p[i], tags)

\* the `$` elements of v are of the variant a decoder of this mode yields
RoundTrips(v, mode) ==
    /\ NoCRLFText(v)
    /\ NoVariant(v, IF mode THEN {"Bulk"} ELSE {"BufBulk"})

\* v as a decoder of this mode yields it: every `$` element in the variant of
\* the mode
RECURSIVE ModeImage(_, _)
ModeImage(v, mode) ==
    CASE v.t \in {"Bulk", "BufBulk"} ->
            IF mode THEN BufBulk(v.p) ELSE Bulk(v.p)
      [] v.t = "Array" ->
            Array([i \in 1..Len(v.p) |-> ModeImage(v.p[i], mode)])
      [] OTHER -> v

\* text of v without CR LF, and in text mode every BufBulk of v is UTF-8
Decodes(v, mode) == NoCRLFText(v) /\ (mode \/ NoBadBufBulk(v))

\* every message is the encoding of such a Value
DecodableStream ==
    AllVals /\ \A i \in 1..Len(sent) : Decodes(Vals[i], buf_bulk)
Images == [i \in 1..Len(sent) |-> ModeImage(Vals[i], buf_bulk)]

\* the stream is the encoding of one Value, delivered whole by one feed call
\* to a fresh decoder, and nothing was read since
OneValueOneShot ==
    /\ Len(sent) = 1 /\ AllVals
    /\ chunking = "oneshot" /\ fed = Len(Stream)
    /\ ret.op = "feed" /\ popped = <<>>

\* C1 (as stated): for every Value v holding no non-UTF-8 BufBulk, feeding
\* encode(v) to a fresh text-mode Decoder and calling read() returns v.
C1_RoundTrip_AsStated ==
    (OneValueOneShot /\ ~buf_bulk /\ NoBadBufBulk(Vals[1]))
        => read(Self).val = <<Vals[1]>>

\* C1 (amended): for every Value v holding no BufBulk at all and no String or
\* Error text with a CR LF pair inside, feeding encode(v) to a fresh
\* text-mode Decoder and calling read() returns v.
C1_RoundTrip ==
    (OneValueOneShot /\ ~buf_bulk /\ RoundTrips(Vals[1], FALSE))
        => read(Self).val = <<Vals[1]>>

C1_RoundTrip_Witness ==
    /\ OneValueOneShot /\ ~buf_bulk /\ RoundTrips(Vals[1], FALSE)
    /\ Vals[1].t = "Array" /\ Len(Vals[1].p) = 3
    /\ res = <<Vals[1]>>

\* the stream is the encoding of one Value, delivered one byte per feed call
\* to a fresh decoder, and nothing was read since
OneValueByBytes ==
    /\ Len(sent) = 1 /\ AllVals
    /\ chunking = "bytes" /\ fed = Len(Stream)
    /\ ret.op = "feed" /\ popped = <<>>

\* what read() returns after one feed call delivers the whole stream to a
\* fresh decoder of the same mode
OneShotRead == read(feed(InitialDecoder, Stream).self).val

\* C2 (as stated): for any Value v, feeding encode(v) one byte per call and
\* feeding it in one call to a Decoder of the same mode yield the same Value
\* from read().
C2_ChunkSize_AsStated ==
    OneValueByBytes => read(Self).val = OneShotRead

\* C2 (amended): for any Value v whose String and Error texts hold no CR LF
\* pair and, for a text-mode Decoder, whose BufBulk payloads are UTF-8,
\* feeding encode(v) one byte per call and feeding it in one call to a
\* Decoder of the same mode yield the same Value from read().
C2_ChunkSize ==
    (OneValueByBytes /\ Decodes(Vals[1], buf_bulk))
        => read(Self).val = OneShotRead

C2_ChunkSize_Witness ==
    /\ OneValueByBytes /\ Decodes(Vals[1], buf_bulk)
    /\ Vals[1].t = "Array"
    /\ read(Self).val # <<>>
    /\ read(Self).val = OneShotRead

\* C3 (as stated, a `$` element taken in the variant of the decoder's mode):
\* for every sequence of Values v1..vk and every split of the concatenated
\* encodings into feed calls, every feed returns success, and after the last
\* feed the reads return exactly v1..vk and buffer_len() is 0.
C3_AnySplit_AsStated ==
    AllVals =>
        /\ ret.op = "feed" => ret.result.ok
        /\ fed = Len(Stream) =>
              popped \o res = Images /\ buffer_len(Self) = 0

\* C3 (amended): the same, for Values whose String and Error texts hold no
\* CR LF pair and, for a text-mode decoder, whose BufBulk payloads are UTF-8;
\* the reads return v1..vk with every `$` element in the variant of the
\* decoder's mode (Bulk for Decoder::new, BufBulk for with_buf_bulk).
C3_AnySplit ==
    DecodableStream =>
        /\ ret.op = "feed" => ret.result.ok
        /\ fed = Len(Stream) =>
              popped \o res = Images /\ buffer_len(Self) = 0

C3_AnySplit_Witness ==
    /\ DecodableStream /\ Len(sent) = 2 /\ chunking = "any"
    /\ fed = Len(Stream) /\ ret.op = "feed"
    /\ popped = <<Vals[1]>> /\ res = <<Vals[2]>>
    /\ Vals[1].t = "Null" /\ Vals[2].t = "Array"

\* C4: read() returns the queued Values in the order they completed parsing
\* (feed only appends to the back of the queue, read only removes its front),
\* which is the order of their encodings in the byte stream: the Values read
\* followed by the Values queued are always a prefix of the Values sent.
C4_Fifo ==
    /\ [][/\ ret'.op = "read" =>
                IF res = <<>>
                THEN ret'.val = <<>> /\ res' = res /\ popped' = popped
                ELSE /\ ret'.val = <<Head(res)>>
                     /\ res' = Tail(res)
                     /\ popped' = Append(popped, Head(res))
          /\ ret'.op = "feed" => popped' = popped /\ IsPrefix(res, res')]_vars
    /\ [](DecodableStream => IsPrefix(popped \o res, Images))

C4_Fifo_Witness ==
    /\ DecodableStream /\ Len(sent) = 2
    /\ ret.op = "read" /\ ret.val = <<Images[1]>>
    /\ popped = <<Images[1]>> /\ res = <<Images[2]>>
    /\ Images[1] # Images[2]

\* the number of bytes of the stream up to the end of message k
Offset(k) == Len(Flatten(SubSeq(sent, 1, k)))

\* the bytes after the cursor
Unconsumed == Slice(buf, pos, Len(buf))

\* this step is a feed call that delivers exactly message k, whole
FeedsWhole(k) ==
    /\ ret'.op = "feed"
    /\ fed = Offset(k - 1) /\ fed' = Offset(k)

\* C5 (as stated, a `$` element taken in the variant of the decoder's mode):
\* after any feed call that reports a protocol error, a subsequent feed of
\* the complete encoding of a Value v returns success and v becomes available
\* through read().
C5_Recovery_AsStated ==
    [][\A k \in 1..Len(sent) :
          (~ret.result.ok /\ FeedsWhole(k) /\ sent[k].val # <<>>)
              => /\ ret'.result.ok
                 /\ res' = Append(res, ModeImage(sent[k].val[1], buf_bulk))]_vars

\* C5 (amended): after any feed call that reports a protocol error (reads may
\* follow it), a feed of the complete encoding of a Value v whose String and
\* Error texts hold no CR LF pair and, for a text-mode decoder, whose BufBulk
\* payloads are UTF-8, returns success and appends v to the queue, every `$`
\* element in the variant of the decoder's mode.
C5_Recovery ==
    [][\A k \in 1..Len(sent) :
          (/\ ~ret.result.ok /\ FeedsWhole(k) /\ sent[k].val # <<>>
           /\ Decodes(sent[k].val[1], buf_bulk))
              => /\ ret'.result.ok
                 /\ res' = Append(res, ModeImage(sent[k].val[1], buf_bulk))]_vars

\* `&-1\r\n` was fed and failed, then `$-1\r\n` was fed and read
C5_Recovery_Witness ==
    /\ sent = <<Raw(<<38, MINUS, 49, CR, LF>>), Val(Null)>>
    /\ fed = Len(Stream) /\ ret.op = "read" /\ ret.result.ok
    /\ ret.val = <<Null>> /\ popped = <<Null>>
    /\ chunking = "any"

\* C6: whenever feed reports a protocol error, the whole buffer is dropped
\* and the cursor reset: after the failing call buffer_len() is 0, so a later
\* feed parses only the bytes it and its successors deliver.
C6_ErrorDiscards ==
    ~ret.result.ok => buffer_len(Self) = 0 /\ pos = 0 /\ Unconsumed = <<>>

\* the failing call had bytes buffered before it and delivered bytes beyond
\* the malformed element
C6_ErrorDiscards_Witness ==
    /\ ~ret.result.ok /\ ret.op = "feed" /\ buffer_len(Self) = 0
    /\ sent[1] = Raw(<<STAR, 50, CR, LF, COLON, 49, CR, LF, 38, 120, CR, LF>>)
    /\ Len(sent) = 2 /\ fed = Len(Stream) /\ res = <<>> /\ popped = <<>>

\* message k is the header of a `$` or `*` element declaring n, and the
\* element is the one the decoder parses when the header arrives: it opens
\* the stream, or follows headers `*1\r\n` of arrays it is the first
\* sub-element of
HeaderAt(k, marker, n) ==
    /\ k \in 1..Len(sent)
    /\ sent[k] = Raw(Header(marker, n))
    /\ \A j \in 1..(k - 1) : sent[j] = Raw(Header(STAR, 1))

\* this step is the feed call that delivers the last byte of message k
FeedCompletes(k) ==
    ret'.op = "feed" /\ fed < Offset(k) /\ fed' >= Offset(k)

\* C7: a `$` or `*` header declaring n is accepted iff -1 <= n < 536870912:
\* for n out of the range the feed call that delivers the header's CR LF
\* reports a protocol error, with no payload byte or sub-element delivered;
\* for n in the range that call succeeds (and for n = -1 queues Null or
\* NullArray).
C7_Bound ==
    [][\A k \in 1..Len(sent) : FeedCompletes(k) =>
          \A marker \in {DOLLAR, STAR}, n \in BoundCases :
            HeaderAt(k, marker, n) =>
              IF n < -1 \/ n >= 536870912
              THEN ~ret'.result.ok
              ELSE fed' = Offset(k) =>
                      /\ ret'.result.ok
                      /\ (n = -1 /\ k = 1) =>
                            res' = Append(res, IF marker = DOLLAR THEN Null
                                               ELSE NullArray)]_vars

\* `$536870912\r\n` alone was delivered and refused
C7_Bound_Witness ==
    /\ sent = <<Raw(Header(DOLLAR, 536870912))>>
    /\ fed = Len(Stream) /\ ret.op = "feed" /\ ~ret.result.ok
    /\ ret.result.message = "Parse '$' failed"

\* the bytes a feed step delivers, and the unconsumed bytes it parses
Chunk == SubSeq(Stream, fed + 1, fed')
Pending == Unconsumed \o Chunk

\* declared lengths of the `$` elements of the streams
DeclaredLens == 0..3

\* b starts a line element and holds no CR LF yet
LineIncomplete(b) ==
    b # <<>> /\ b[1] \in {PLUS, MINUS, COLON} /\ ~HasCRLF(b)

\* b is the header of a `$` element declaring n >= 0 and fewer than n + 2
\* bytes after it
BulkIncomplete(b) ==
    \E n \in DeclaredLens :
        /\ IsPrefix(Header(DOLLAR, n), b)
        /\ Len(b) - Len(Header(DOLLAR, n)) < n + 2

\* C8: when the unconsumed bytes do not yet hold a complete element (a line
\* without its CR LF, a `$` element with fewer than declared length + 2 bytes
\* after its header), feed returns success, queues nothing and keeps every
\* pending byte; a later feed that completes the element yields the Value:
\* after "$0\r\n" nothing is queued, after the following "\r\n" Bulk("") is.
C8_NeedMore ==
    /\ [][(ret'.op = "feed" /\ (LineIncomplete(Pending) \/ BulkIncomplete(Pending)))
            => ret'.result.ok /\ res' = res /\ Unconsumed' = Pending]_vars
    /\ []((sent = <<Val(Bulk(<<>>))>> /\ ~buf_bulk) =>
            /\ fed \in 1..5 => res = <<>> /\ popped = <<>>
                               /\ Unconsumed = SubSeq(Stream, 1, fed)
            /\ fed = 6 => popped \o res = <<Bulk(<<>>)>>)

\* "$0\r\n" was fed: nothing queued, four bytes pending
C8_NeedMore_Witness ==
    /\ sent = <<Val(Bulk(<<>>))>> /\ ~buf_bulk
    /\ ret.op = "feed" /\ ret.result.ok /\ fed = 4
    /\ Unconsumed = <<DOLLAR, ZERO, CR, LF>> /\ res = <<>> /\ popped = <<>>

\* C9: no partial array is ever emitted.  While the encoding of an Array is
\* only partly delivered (cut anywhere: in its count header, between or
\* inside its sub-elements, at any depth), the last feed returned success,
\* no byte of the array is consumed, and neither the array nor any of its
\* sub-elements is queued; the array is queued once it is delivered whole.
C9_NoPartialArray ==
    DecodableStream =>
        \A k \in 1..Len(sent) :
            Vals[k].t = "Array" =>
                /\ (Offset(k - 1) < fed /\ fed < Offset(k)) =>
                      /\ ret.result.ok
                      /\ popped \o res = SubSeq(Images, 1, k - 1)
                      /\ Unconsumed = SubSeq(Stream, Offset(k - 1) + 1, fed)
                /\ fed >= Offset(k) =>
                      IsPrefix(SubSeq(Images, 1, k), popped \o res)

\* an array of three elements, the first two delivered whole and the third
\* in part
C9_NoPartialArray_Witness ==
    /\ DecodableStream /\ Len(sent) = 1
    /\ Vals[1] = Array(<<Null, Integer(I64(123)), Bulk(<<120>>)>>)
    /\ fed = 17 /\ ret.op = "feed" /\ res = <<>> /\ popped = <<>>
    /\ Len(Unconsumed) = 17

\* C10: for a `$` element declaring n >= 0, once n + 2 bytes follow the
\* header the element is accepted only if the two bytes after the n payload
\* bytes are CR LF (and, in text mode, the payload is UTF-8); otherwise feed
\* reports a protocol error and queues no Value for it.  The payload is the n
\* bytes after the header, whatever they are (CR LF included).
C10_BulkTerminator ==
    [][ret'.op = "feed" =>
        \A c \in BulkCases :
          (IsPrefix(BulkBytes(c), Pending) /\ Len(Unconsumed) < Len(BulkBytes(c)))
            => IF /\ is_crlf(c.body[c.n + 1], c.body[c.n + 2])
                  /\ (buf_bulk \/ from_utf8_ok(SubSeq(c.body, 1, c.n)))
               THEN IsPrefix(Append(res, ModeImage(Bulk(SubSeq(c.body, 1, c.n)),
                                                   buf_bulk)), res')
               ELSE ~ret'.result.ok /\ res' = res]_vars

\* "$2\r\n\r\n\r\n" was decoded to the payload CR LF; "$2\r\n\r\nab" failed
C10_BulkTerminator_Witness ==
    /\ sent = <<Raw(BulkBytes([n |-> 2, body |-> <<CR, LF, CR, LF>>])),
                Raw(BulkBytes([n |-> 2, body |-> <<CR, LF, 97, 98>>]))>>
    /\ ~buf_bulk /\ fed = Len(Stream) /\ ret.op = "feed" /\ ~ret.result.ok
    /\ popped \o res = <<Bulk(<<CR, LF>>)>>

\* the length of the encoding of v up to the end of its first `$` element
\* whose payload is not UTF-8 (v holds one)
RECURSIVE BadEnd(_)
BadEnd(v) ==
    IF v.t = "Array"
    THEN LET i == CHOOSE i \in 1..Len(v.p) :
                      /\ ~NoBadBufBulk(v.p[i])
                      /\ \A j \in 1..(i - 1) : NoBadBufBulk(v.p[j])
         IN  Len(Header(STAR, Len(v.p))) + Len(encode_items(SubSeq(v.p, 1, i - 1)))
                 + BadEnd(v.p[i])
    ELSE Len(encode(v))

\* the `$` variant a decoder of this mode never yields
OtherVariant(mode) == IF mode THEN {"Bulk"} ELSE {"BufBulk"}

\* C11: the bulk mode is fixed at construction and applies to every `$`
\* element, top-level or nested: no feed or read call changes buf_bulk; a
\* Decoder made by Decoder::new yields only Value::Bulk, and the feed call that
\* completes a `$` element whose payload is not UTF-8 reports the bulk error
\* and queues nothing for it; a Decoder made by Decoder::with_buf_bulk yields
\* only Value::BufBulk and never fails on the payload.
C11_BulkMode ==
    /\ [][buf_bulk' = buf_bulk]_vars
    /\ [](\A i \in 1..Len(popped \o res) :
            NoVariant((popped \o res)[i], OtherVariant(buf_bulk)))
    /\ [](buf_bulk => /\ ret.result.ok
                      /\ fed = Len(Stream) => popped \o res = Images)
    /\ [][\A k \in 1..Len(sent) :
            (/\ ~buf_bulk /\ ret'.op = "feed"
             /\ ~NoBadBufBulk(Vals[k])
             /\ \A j \in 1..(k - 1) : NoBadBufBulk(Vals[j])
             /\ fed < Offset(k - 1) + BadEnd(Vals[k])
             /\ fed' >= Offset(k - 1) + BadEnd(Vals[k]))
                => /\ ~ret'.result.ok
                   /\ ret'.result.message = "Parse '$' failed"
                   /\ popped' \o res' = SubSeq(Images, 1, k - 1)]_vars

\* a Bulk and a nested BufBulk were sent to a with_buf_bulk decoder, which
\* queued both as BufBulk
C11_BulkMode_Witness ==
    /\ buf_bulk /\ fed = Len(Stream) /\ ret.op = "feed" /\ ret.result.ok
    /\ sent = <<Val(Array(<<Bulk(<<120>>), Array(<<BufBulk(<<121>>)>>)>>))>>
    /\ res = <<Array(<<BufBulk(<<120>>), Array(<<BufBulk(<<121>>)>>)>>)>>

\* the message the last call of the peer wrote
Written == sent'[Len(sent')]

\* the wire bytes of the Values of EncValues, byte by byte
Wire(v) ==
    CASE v = Null -> <<36, 45, 49, 13, 10>>
      [] v = NullArray -> <<42, 45, 49, 13, 10>>
      [] v = String(<<79, 75, 230, 173, 163>>) -> <<43, 79, 75, 230, 173, 163, 13, 10>>
      [] v = Error(<<101, 114, 114, 111, 114, 32, 109, 101, 115, 115, 97, 103, 101>>) -> <<45, 101, 114, 114, 111, 114, 32, 109, 101, 115, 115, 97, 103, 101, 13, 10>>
      [] v = Integer(I64(123456789)) -> <<58, 49, 50, 51, 52, 53, 54, 55, 56, 57, 13, 10>>
      [] v = Integer(I64(-123456789)) -> <<58, 45, 49, 50, 51, 52, 53, 54, 55, 56, 57, 13, 10>>
      [] v = Integer(I64(0)) -> <<58, 48, 13, 10>>
      [] v = Integer([neg |-> TRUE, mag |-> I64_MIN_MAG]) ->
            <<58, 45, 57, 50, 50, 51, 51, 55, 50, 48, 51, 54, 56, 53, 52, 55, 55, 53, 56, 48, 56, 13, 10>>
      [] v = Bulk(<<79, 75, 230, 173, 163>>) -> <<36, 53, 13, 10, 79, 75, 230, 173, 163, 13, 10>>
      [] v = BufBulk(<<79, 75>>) -> <<36, 50, 13, 10, 79, 75, 13, 10>>
      [] v = Bulk(<<48, 49, 50, 51, 52, 53, 54, 55, 56, 57>>) ->
            <<36, 49, 48, 13, 10, 48, 49, 50, 51, 52, 53, 54, 55, 56, 57, 13, 10>>
      [] v = Array(<<>>) -> <<42, 48, 13, 10>>
      [] v.t = "Array" /\ Len(v.p) = 7 ->
            <<42, 55, 13, 10, 36, 45, 49, 13, 10, 42, 45, 49, 13, 10, 43, 79, 75, 13, 10, 45, 109, 101, 115, 115, 97, 103, 101, 13, 10, 58, 49, 50, 51, 52, 53, 54, 55, 56, 57, 13, 10, 36, 53, 13, 10, 72, 101, 108, 108, 111, 13, 10, 36, 50, 13, 10, 79, 75, 13, 10>>
      [] v.t = "Array" /\ Len(v.p) = 2 ->
            <<42, 50, 13, 10, 42, 50, 13, 10, 58, 49, 13, 10, 42, 48, 13, 10, 36, 45, 49, 13, 10>>

\* C12: encode produces the exact wire bytes: Null is `$-1\r\n`, NullArray
\* `*-1\r\n`, a String '+' s CR LF, an Error '-' s CR LF, an Integer ':' and
\* its decimal digits (with '-' when negative) CR LF, a Bulk or BufBulk '$',
\* the decimal byte length of the payload, CR LF, the payload, CR LF, and an
\* Array '*', the decimal element count, CR LF and the encodings of its
\* elements in order, with no terminator of its own.
C12_Encode ==
    [][ret'.op = "encode" =>
          /\ Len(sent') = Len(sent) + 1
          /\ Written.val[1] \in EncValues
          /\ Written.bytes = Wire(Written.val[1])]_vars

\* the Array of the seven variants was encoded
C12_Encode_Witness ==
    /\ ret.op = "encode" /\ Len(sent) = 1
    /\ sent[1].val[1].t = "Array" /\ Len(sent[1].val[1].p) = 7
    /\ Len(sent[1].bytes) = 60
    /\ sent[1].bytes = Wire(sent[1].val[1])

\* the wire bytes of the string lists of Slices, byte by byte
SliceWire(slice) ==
    CASE slice = <<>> -> <<42, 48, 13, 10>>
      [] Len(slice) = 3 ->
            <<42, 51, 13, 10, 36, 51, 13, 10, 83, 69, 84, 13, 10, 36, 49, 13, 10, 97, 13, 10, 36, 49, 13, 10, 49, 13, 10>>
      [] slice = <<<<>>>> -> <<42, 49, 13, 10, 36, 48, 13, 10, 13, 10>>
      [] Len(slice) = 2 ->
            <<42, 50, 13, 10, 36, 53, 13, 10, 79, 75, 230, 173, 163, 13, 10, 36, 48, 13, 10, 13, 10>>

\* C13: encode_slice(strings) is the encoding of the Array of one Bulk per
\* string, in order, the empty list included (`*0\r\n`);
\* encode_slice(["SET", "a", "1"]) is
\* `*3\r\n$3\r\nSET\r\n$1\r\na\r\n$1\r\n1\r\n`.
C13_EncodeSlice ==
    [][ret'.op = "encode_slice" =>
          \E slice \in Slices :
              /\ Written.val = <<Array([i \in 1..Len(slice) |-> Bulk(slice[i])])>>
              /\ Written.bytes = SliceWire(slice)
              /\ Written.bytes = encode(Written.val[1])]_vars

\* encode_slice(["SET", "a", "1"]) was written
C13_EncodeSlice_Witness ==
    /\ ret.op = "encode_slice" /\ Len(sent) = 2
    /\ sent[2].val = <<Array(<<Bulk(<<83, 69, 84>>), Bulk(<<97>>), Bulk(<<49>>)>>)>>
    /\ sent[2].bytes = SliceWire(<<<<83, 69, 84>>, <<97>>, <<49>>>>)
    /\ sent[1].bytes = <<42, 48, 13, 10>>

\* the elements a declared -1 completes: the bytes, and the Value they are
Sentinels ==
    { [bytes |-> NULL_BYTES, value |-> Null],
      [bytes |-> NULL_ARRAY_BYTES, value |-> NullArray],
      [bytes |-> Header(STAR, 1) \o NULL_BYTES, value |-> Array(<<Null>>)],
      [bytes |-> Header(STAR, 1) \o NULL_ARRAY_BYTES,
       value |-> Array(<<NullArray>>)] }

\* a decoder of the same mode with an empty buffer and this queue
Emptied(queue) ==
    [buf_bulk |-> buf_bulk, pos |-> 0, buf |-> <<>>, res |-> queue]

\* C14: a `$` header declaring -1 yields Null and a `*` header declaring -1
\* NullArray (top-level or as the element of an Array) in the feed call that
\* buffers the header's CR LF, consuming exactly the header, 5 bytes; the
\* bytes after it are parsed as the next element, as if they had been fed
\* alone to a decoder with an empty buffer.
C14_Sentinel ==
    [][ret'.op = "feed" =>
        \A c \in Sentinels :
            IsPrefix(c.bytes, Pending) =>
                LET rest == SubSeq(Pending, Len(c.bytes) + 1, Len(Pending))
                    r == feed(Emptied(Append(res, c.value)), rest)
                IN  /\ IsPrefix(Append(res, c.value), res')
                    /\ res' = r.self.res
                    /\ ret'.result = r.ret
                    /\ Unconsumed' =
                          Slice(r.self.buf, r.self.pos, Len(r.self.buf))
                    /\ rest = <<>> =>
                          /\ ret'.result.ok
                          /\ res' = Append(res, c.value)
                          /\ Unconsumed' = <<>>]_vars

\* "$-1\r\n$0\r\n" was fed in one call: Null is queued, the cursor is after
\* its 5 bytes and the next header is pending
C14_Sentinel_Witness ==
    /\ sent = <<Raw(Header(DOLLAR, -1)), Raw(Header(DOLLAR, 0))>>
    /\ chunking = "oneshot" /\ ret.op = "feed" /\ ret.result.ok
    /\ res = <<Null>> /\ pos = 5 /\ buf = Stream
    /\ Unconsumed = Header(DOLLAR, 0)

\* the bytes that open an element
Markers == {PLUS, MINUS, COLON, DOLLAR, STAR}

\* bytes that open no element
BadMarkers == {38, 120}

\* complete elements, and the Values they are, that an element with an
\* unknown marker follows at top level
Before ==
    { [bytes |-> <<>>, values |-> <<>>],
      [bytes |-> NULL_BYTES, values |-> <<Null>>] }

\* the bytes of an Array up to an element with an unknown marker
Inside == { <<>>, <<STAR, 50, CR, LF, COLON, 49, CR, LF>> }

\* b with the byte at index i replaced by c
Replaced(b, i, c) == [b EXCEPT ![i] = c]

KindOf(marker) ==
    CASE marker = PLUS -> "Parse '+' failed"
      [] marker = MINUS -> "Parse '-' failed"
      [] marker = COLON -> "Parse ':' failed"
      [] marker = DOLLAR -> "Parse '$' failed"
      [] marker = STAR -> "Parse '*' failed"
      [] OTHER -> "Invalid Chunk: parse failed"

\* the `$` element with a non-UTF-8 payload, malformed in text mode only
BadUtf8Bulk == Header(DOLLAR, 1) \o <<255, CR, LF>>

\* m is malformed for a decoder of this mode
MalformedFor(m, mode) == m \in Malformed /\ (mode => m # BadUtf8Bulk)

\* this feed step delivers the last byte of the bytes b, which open the
\* unconsumed buffer
Delivers(b) ==
    ret'.op = "feed" /\ IsPrefix(b, Pending) /\ Len(Unconsumed) < Len(b)

\* C16: the error follows the marker of the malformed top-level element: a
\* '+' line that is not UTF-8 is reported with the '+' message, a '-' line
\* with the '-' message, a ':' line that is no integer with the ':' message, a
\* `$` element with an invalid header, a length out of range, a wrong
\* terminator or (text mode) a non-UTF-8 payload with the '$' message, and a
\* `*` element with an invalid or out-of-range count with the '*' message.
C16_ErrorKind ==
    [][\A m \in Malformed :
          (Delivers(m) /\ MalformedFor(m, buf_bulk) /\ m[1] \in Markers)
              => /\ ret'.result = [ok |-> FALSE, kind |-> "InvalidData",
                                   message |-> KindOf(m[1])]
                 /\ res' = res]_vars

\* "$1\r\nxyz" (a wrong terminator) then "-" and a non-UTF-8 byte were fed
\* message by message: the last call failed with the '-' message
C16_ErrorKind_Witness ==
    /\ sent = <<Raw(Header(DOLLAR, 1) \o <<120, 121, 122>>),
                Raw(<<MINUS, 255, CR, LF>>)>>
    /\ fed = Len(Stream) /\ ret.op = "feed" /\ ~ret.result.ok
    /\ ret.result.message = "Parse '-' failed"
    /\ res = <<>>

\* the headers of depth Arrays of one element each, nested
RECURSIVE Nest(_)
Nest(depth) ==
    IF depth = 0 THEN <<>> ELSE Header(STAR, 1) \o Nest(depth - 1)

\* C17 (as stated): a protocol error detected in a nested element of an Array
\* is reported by feed as the array error.
C17_NestedError_AsStated ==
    [][\A m \in Malformed, depth \in 1..(Len(sent) - 1) :
          (Delivers(Nest(depth) \o m) /\ MalformedFor(m, buf_bulk))
              => /\ ~ret'.result.ok
                 /\ ret'.result.message = KindOf(STAR)]_vars

\* C17 (amended): a protocol error detected in a nested element of an Array,
\* at any depth, is reported by feed as the error of the nested element
\* itself, the one its own marker gives at top level, unchanged by the Arrays
\* around it; it is the array error only when the nested element is an Array
\* with an invalid count.
C17_NestedError ==
    [][\A m \in Malformed, depth \in 1..(Len(sent) - 1) :
          (Delivers(Nest(depth) \o m) /\ MalformedFor(m, buf_bulk))
              => /\ ret'.result = [ok |-> FALSE, kind |-> "InvalidData",
                                   message |-> KindOf(m[1])]
                 /\ ret'.result = feed(Emptied(res), m).ret
                 /\ res' = res]_vars

\* "*1\r\n" then "$\r\n" were fed: the call failed with the '$' message
C17_NestedError_Witness ==
    /\ sent = <<Raw(Header(STAR, 1)), Raw(<<DOLLAR, CR, LF>>)>>
    /\ fed = Len(Stream) /\ ret.op = "feed" /\ ~ret.result.ok
    /\ ret.result.message = "Parse '$' failed"
    /\ res = <<>> /\ buf = <<>>

\* C18: in every reachable state buffer_len() is the number of bytes received
\* that do not yet form a complete Value: the bytes delivered so far less the
\* bytes of the Values already moved to the queue (and read from it).
C18_BufferLen ==
    DecodableStream =>
        buffer_len(Self) = fed - Offset(Len(popped \o res))

\* the last feed call left unconsumed bytes: it ended with need more data
NeedMore == ret.op # "new" /\ ret.result.ok /\ Unconsumed # <<>>

\* the number of times this feed step looks at the unconsumed bytes
Scans == feed(Self, Chunk).scans

C20_ReadFrame ==
    [][/\ ret'.op = "read" =>
            /\ IF res # <<>>
               THEN /\ ret'.val = <<Head(res)>>
                    /\ res' = Tail(res)
                    /\ result_len(Self)' = result_len(Self) - 1
               ELSE ret'.val = <<>> /\ res' = <<>>
            /\ buf' = buf /\ pos' = pos /\ buf_bulk' = buf_bulk
            /\ buffer_len(Self)' = buffer_len(Self)
       /\ ret'.op \in {"buffer_len", "result_len"} =>
            /\ Self' = Self
            /\ ret'.val = IF ret'.op = "buffer_len" THEN <<Len(buf)>>
                          ELSE <<Len(res)>>]_vars

\* a Value was queued with bytes of the next one behind it, a read returned
\* it and result_len() then returned 0: the buffer and the cursor are as the
\* feed left them
C20_ReadFrame_Witness ==
    /\ Len(sent) = 2 /\ fed = Offset(1) + 2
    /\ ret.op = "result_len" /\ ret.val = <<0>>
    /\ popped = <<Images[1]>> /\ res = <<>>
    /\ pos = Offset(1) /\ buf = SubSeq(Stream, 1, fed)

\* the messages of ErrorMessage
ProtocolMessages ==
    {ErrorMessage_to_string(m) :
        m \in {"ParseString", "ParseError", "ParseInteger", "ParseBulk",
               "ParseArray", "ParseInvalid"}}

C22_EncodedString ==
    [][ret'.op = "to_encoded_string" =>
          LET v == ret'.val[1]
              r == ret'.val[2]
          IN  /\ r.ok <=> NoBadBufBulk(v)
              /\ NoVariant(v, {"BufBulk"}) => r.ok
              /\ r.ok => r.string = encode(v)
              /\ (r.ok /\ v \in EncValues) => r.string = Wire(v)]_vars

\* the Array of the seven variants was turned into text
C22_EncodedString_Witness ==
    /\ ret.op = "to_encoded_string"
    /\ ret.val[1].t = "Array" /\ Len(ret.val[1].p) = 7
    /\ ret.val[2].ok /\ ret.val[2].string = Wire(ret.val[1])

\* C23: byte-at-a-time feeding of a concatenation of well-formed encodings,
\* the queue drained after every feed: a Value is queued only by the feed that
\* delivers the last byte of its encoding; after that feed result_len() is 1
\* and buffer_len() is 0, after every other feed result_len() is 0 and
\* buffer_len() is greater than 0.
C23_ByteByByte ==
    [][(/\ ret'.op = "feed" /\ chunking = "bytes" /\ DecodableStream
        /\ res = <<>>)
          => IF \E k \in 1..Len(sent) : fed' = Offset(k)
             THEN /\ result_len(Self)' = 1
                  /\ buffer_len(Self)' = 0
                  /\ \A k \in 1..Len(sent) : fed' = Offset(k) => res' = <<Images[k]>>
             ELSE /\ result_len(Self)' = 0
                  /\ buffer_len(Self)' > 0]_vars

\* two Values were fed byte by byte and read as soon as queued; the last byte
\* of the second has just been delivered
C23_ByteByByte_Witness ==
    /\ chunking = "bytes" /\ DecodableStream /\ Len(sent) = 2
    /\ Vals[1].t = "Array" /\ Vals[2].t = "Integer"
    /\ fed = Len(Stream) /\ ret.op = "feed"
    /\ popped = <<Images[1]>> /\ res = <<Images[2]>>
    /\ buffer_len(Self) = 0

\* malformed elements that fail as soon as they are buffered whole
FailsWhole ==
    { <<38, MINUS, 49, CR, LF>>, <<DOLLAR, CR, LF>>,
      <<PLUS, 79, 75, 230, 173, CR, LF>>, <<DOLLAR, MINUS, 50, CR, LF>> }

\* C24: a failing feed loses no completed Value: the Values queued before the
\* call, and the Values whose complete encodings precede the malformed
\* element in the same call, are in the queue, in stream order, when feed
\* returns the error, and read() returns them.
C24_KeepsCompleted ==
    /\ [][(ret'.op = "feed" /\ ~ret'.result.ok) => IsPrefix(res, res')]_vars
    /\ [][\A j \in 0..Len(sent), k \in 1..Len(sent) :
            (/\ ret'.op = "feed" /\ j < k
             /\ Unconsumed = <<>> /\ fed = Offset(j) /\ fed' = Offset(k)
             /\ sent[k].val = <<>> /\ sent[k].bytes \in FailsWhole
             /\ \A i \in (j + 1)..(k - 1) :
                    sent[i].val # <<>> /\ Decodes(sent[i].val[1], buf_bulk))
                => /\ ~ret'.result.ok
                   /\ res' = res \o [i \in 1..(k - 1 - j) |->
                                        ModeImage(sent[j + i].val[1], buf_bulk)]
                   /\ read(Self').val = IF res' = <<>> THEN <<>>
                                        ELSE <<Head(res')>>]_vars
    /\ [][\A b \in Before :
            (/\ ret'.op = "feed" /\ IsPrefix(b.bytes, Pending)
             /\ Len(Pending) >= Len(b.bytes) + 3
             /\ Pending[Len(b.bytes) + 1] \notin Markers)
                => ~ret'.result.ok /\ res' = res \o b.values]_vars

\* Integer(123) was queued by a first call; a second call delivered
\* `$-1\r\n&-1\r\n` whole and failed: both Values are in the queue
C24_KeepsCompleted_Witness ==
    /\ sent = <<Val(Integer(I64(123))),
                Raw(NULL_BYTES \o <<38, MINUS, 49, CR, LF>>)>>
    /\ fed = Len(Stream) /\ ret.op = "feed" /\ ~ret.result.ok
    /\ res = <<Integer(I64(123)), Null>> /\ popped = <<>>

\* C25: a malformed sub-element aborts its Array at once: when the
\* sub-elements before it are buffered whole and it is malformed, feed
\* returns the error of the sub-element in the call that completes it, though
\* the sub-elements after it have not arrived; no Array is queued, and the
\* sub-elements parsed for the Array are dropped with the buffer.
C25_ArrayAbort ==
    [][\A open \in ArrayOpens, bad \in BadElements :
          Delivers(open \o bad)
              => /\ ret'.result = [ok |-> FALSE, kind |-> "InvalidData",
                                   message |-> KindOf(bad[1])]
                 /\ res' = res
                 /\ buf' = <<>> /\ pos' = 0]_vars

\* `*3\r\n:1\r\n` then `$\r\n` were fed: the second of three sub-elements
\* failed, nothing is queued or buffered
C25_ArrayAbort_Witness ==
    /\ sent = <<Raw(Header(STAR, 3) \o <<COLON, 49, CR, LF>>),
                Raw(<<DOLLAR, CR, LF>>)>>
    /\ fed = Len(Stream) /\ ret.op = "feed"
    /\ ret.result.message = "Parse '$' failed"
    /\ res = <<>> /\ popped = <<>> /\ buf = <<>>

\* the texts that are an integer of the i64 range, and the integer: an
\* optional sign and decimal digits
IntMeaning ==
    { [text |-> <<45, 55>>, int |-> [neg |-> TRUE, mag |-> <<7>>]],
      [text |-> <<43, 53>>, int |-> [neg |-> FALSE, mag |-> <<5>>]],
      [text |-> <<48, 48, 55>>, int |-> [neg |-> FALSE, mag |-> <<7>>]],
      [text |-> <<45, 48>>, int |-> [neg |-> FALSE, mag |-> <<0>>]],
      [text |-> <<57, 50, 50, 51, 51, 55, 50, 48, 51, 54, 56, 53, 52, 55, 55,
                  53, 56, 48, 55>>,
       int |-> [neg |-> FALSE,
                mag |-> <<9, 2, 2, 3, 3, 7, 2, 0, 3, 6, 8, 5, 4, 7, 7, 5, 8, 0,
                          7>>]],
      [text |-> <<45, 57, 50, 50, 51, 51, 55, 50, 48, 51, 54, 56, 53, 52, 55,
                  55, 53, 56, 48, 56>>,
       int |-> [neg |-> TRUE,
                mag |-> <<9, 2, 2, 3, 3, 7, 2, 0, 3, 6, 8, 5, 4, 7, 7, 5, 8, 0,
                          8>>]] }

\* the `$` and `*` elements of HeaderTexts whose header is an integer, and
\* the Value they are
HeaderMeaning ==
    { [bytes |-> <<DOLLAR, PLUS, 49, CR, LF, 120, CR, LF>>,
       value |-> Bulk(<<120>>)],
      [bytes |-> <<DOLLAR, MINUS, ZERO, 49, CR, LF>>, value |-> Null],
      [bytes |-> <<STAR, PLUS, ZERO, CR, LF>>, value |-> Array(<<>>)] }

\* C26: a ':' line decodes to Integer(n) exactly when the bytes between ':'
\* and the first CR LF are the base-10 text of an integer n of the signed
\* 64-bit range (an optional sign, then digits); when they are empty, not
\* numeric or out of range, feed reports the integer error and queues nothing
\* for the element.  The header of `$` and `*` is validated the same way and
\* fails with the error of its marker.
C26_IntegerText ==
    /\ [][\A t \in IntTexts :
            Delivers(<<COLON>> \o t \o CLRF_BYTES)
                => IF \E e \in IntMeaning : e.text = t
                   THEN \A e \in IntMeaning :
                            e.text = t => IsPrefix(Append(res, Integer(e.int)), res')
                   ELSE /\ ret'.result = [ok |-> FALSE, kind |-> "InvalidData",
                                          message |-> KindOf(COLON)]
                        /\ res' = res]_vars
    /\ [][\A h \in HeaderTexts :
            Delivers(h)
                => IF \E e \in HeaderMeaning : e.bytes = h
                   THEN \A e \in HeaderMeaning :
                            e.bytes = h =>
                                IsPrefix(Append(res, ModeImage(e.value, buf_bulk)),
                                         res')
                   ELSE /\ ret'.result = [ok |-> FALSE, kind |-> "InvalidData",
                                          message |-> KindOf(h[1])]
                        /\ res' = res]_vars

\* `:9223372036854775807\r\n` was decoded to the largest i64
C26_IntegerText_Witness ==
    /\ Len(sent) = 1 /\ Len(Stream) = 22 /\ fed = 22
    /\ ret.op = "feed" /\ ret.result.ok
    /\ res = <<Integer([neg |-> FALSE, mag |-> I64_MAX_MAG])>>

\* the Values this feed step queues, the bytes it consumes and the number of
\* times its parse loop runs
Produced == Len(res') - Len(res)
Consumed == Len(Pending) - Len(Unconsumed')
Calls == feed(Self, Chunk).calls

\* C27: every feed call terminates: its parse loop stops on need more data
\* or on an error, or consumes at least 3 bytes for the Value it produces, so
\* the unconsumed bytes shrink with every Value and the loop runs at most
\* (unconsumed bytes / 3) + 1 times.
C27_FeedTerminates ==
    [][ret'.op = "feed" =>
          /\ feed(Self, Chunk).self = Self'
          /\ Produced >= 0
          /\ Consumed >= 3 * Produced
          /\ Calls = Produced + 1
          /\ Calls <= (Len(Pending) \div 3) + 1]_vars

\* one call delivered `+\r\n+\r\n`: two Values out of 6 bytes, the loop ran
\* 3 times
C27_FeedTerminates_Witness ==
    /\ ret.op = "feed" /\ ret.result.ok /\ chunking = "oneshot"
    /\ Stream = <<PLUS, CR, LF, PLUS, CR, LF>> /\ fed = 6
    /\ popped = <<>> /\ res = <<String(<<>>), String(<<>>)>>
    /\ buf = <<>> /\ pos = 0

\* the bytes this feed step consumes, and what a fresh decoder makes of them
ConsumedBytes == SubSeq(Pending, 1, Consumed)
Fresh(bytes) == feed(InitialDecoder, bytes)

\* C28: after every feed and read call 0 <= pos <= len(buf), and
\* pos = len(buf) only when both are 0; the bytes buf[pos..] are exactly the
\* bytes received since the last completed Value or error, in arrival order:
\* a feed that completes nothing appends its chunk to them, a feed that fails
\* leaves none, a feed that queues Values leaves the bytes that follow the
\* last of them, and read leaves them as they are.
C28_Cursor ==
    /\ [](/\ 0 <= pos /\ pos <= Len(buf)
          /\ (pos = Len(buf) => pos = 0 /\ buf = <<>>)
          /\ \E k \in 0..fed : Unconsumed = SubSeq(Stream, k + 1, fed))
    /\ [][ret'.op = "feed" =>
            /\ (ret'.result.ok /\ res' = res) => Unconsumed' = Pending
            /\ ~ret'.result.ok => Unconsumed' = <<>>
            /\ (ret'.result.ok /\ res' # res) =>
                  /\ Pending = ConsumedBytes \o Unconsumed'
                  /\ res' = res \o Fresh(ConsumedBytes).self.res
                  /\ Fresh(ConsumedBytes).self.buf = <<>>
                  /\ \A n \in 0..(Consumed - 1) :
                        Len(Fresh(SubSeq(Pending, 1, n)).self.res)
                            < Produced]_vars
    /\ [][ret'.op = "read" => Unconsumed' = Unconsumed]_vars

\* a feed queued a Value and left the first bytes of the next element after
\* the cursor
C28_Cursor_Witness ==
    /\ ret.op = "feed" /\ ret.result.ok /\ res # <<>>
    /\ 0 < pos /\ pos < Len(buf)
    /\ \E k \in 1..Len(sent) :
          /\ Offset(k - 1) = fed - Len(Unconsumed)
          /\ Unconsumed = SubSeq(sent[k].bytes, 1, Len(Unconsumed))

\* what parse_one_value makes of the unconsumed bytes
AtFront == parse_one_value(Unconsumed, 0, buf_bulk)

\* C29: after any feed returns, with success or with an error, the
\* unconsumed bytes hold neither a complete element nor a detectable protocol
\* error at their front; hence feed of an empty slice in any reachable state
\* returns success and leaves buffer, cursor and queue unchanged.
C29_EmptyFeed ==
    /\ [](AtFront.k = "None")
    /\ [][(ret'.op = "feed" /\ fed' = fed) =>
            /\ ret'.result.ok
            /\ buf' = buf /\ pos' = pos /\ res' = res]_vars

\* `&-1\r\n` made a feed fail; an empty feed after it returned success on the
\* emptied decoder
C29_EmptyFeed_Witness ==
    /\ ret.op = "feed" /\ ret.result.ok
    /\ fed = 5 /\ IsPrefix(<<38, MINUS, 49, CR, LF>>, Stream)
    /\ buf = <<>> /\ pos = 0 /\ res = <<>> /\ popped = <<>>

\* the bytes delivered so far, fed to a new decoder in one call
Delivered == SubSeq(Stream, 1, fed)
OneFeed == feed(InitialDecoder, Delivered)
SameAsOneFeed ==
    /\ popped \o res = OneFeed.self.res
    /\ Unconsumed = Slice(OneFeed.self.buf, OneFeed.self.pos,
                          Len(OneFeed.self.buf))

\* C30 (as stated): for every byte sequence, well-formed or malformed, the
\* Values made available to read() and the final pending buffer are the same
\* whether the bytes are delivered in one feed call or split at arbitrary
\* points across several feed calls.
C30_Chunking_AsStated == SameAsOneFeed

\* C30 (amended): for every byte sequence that holds no malformed element
\* (one feed call of it reports no error), the Values made available to
\* read() and the bytes left after the cursor are the same whether the bytes
\* are delivered in one feed call or split at arbitrary points across several
\* feed calls, and no call reports an error.
C30_Chunking ==
    OneFeed.ret.ok => SameAsOneFeed /\ ret.result.ok

\* two elements and the first bytes of a third arrived byte by byte: the
\* decoder is where one feed of the same bytes leaves a new one
C30_Chunking_Witness ==
    /\ chunking = "bytes" /\ ret.op = "feed" /\ OneFeed.ret.ok
    /\ Len(sent) = 2 /\ sent[1].val # <<>>
    /\ fed > Offset(1) + 3 /\ fed < Len(Stream)
    /\ popped \o res = <<ModeImage(sent[1].val[1], buf_bulk)>>
    /\ Unconsumed = SubSeq(sent[2].bytes, 1, fed - Offset(1))

====
